---- MODULE Spec2Model ----
(***************************************************************************)
(* Model of transaction-manager-rs:                                        *)
(*   - ConnectionPool::shared, the lazily initialised process-wide pool    *)
(*     kept in a tokio::sync::OnceCell (src/src/database/connection_pool.rs)*)
(*   - TransactionExecutor::execute_queries, the rollback-on-first-failure *)
(*     loop (src/src/database/transaction_executor.rs)                     *)
(* Every .await of the code is one step of the caller that awaits.         *)
(***************************************************************************)
EXTENDS Integers, Sequences, FiniteSets, TLC

\* ------------------------------------------------------------------ bounds
NumCallers == 3        \* tasks that call ConnectionPool::shared()
MaxSharedCalls == 2    \* calls of shared() each of them makes, one after the other
NumTasks == 2          \* tasks that call execute_queries
MaxBatch == 2          \* longest batch handed to execute_queries
MaxRows == 2           \* most rows the database answers a read with

Callers == 1..NumCallers
Tasks == 1..NumTasks

\* ------------------------------------------------------- program constants
\* connection_pool.rs:13
DEFAULT_MAX_CONNECTIONS == 10

NoPool == 0            \* the OnceCell holds no value
NoIndex == -1          \* an error whose message carries no statement index

VARIABLES
    \* the process environment read by ConnectionPool::new
    envDatabaseUrl,    \* std::env::var("DATABASE_URL")
    envConnectionPool, \* std::env::var("CONNECTION_POOL")
    \* SHARED_CONNECTION_POOL: OnceCell<SharedConnectionPool>
    cell,              \* the value: NoPool, or the id of the pool it holds
    permits,           \* permits of the cell's semaphore (1 at construction)
    closed,            \* the semaphore was closed by set_value
    \* the callers of ConnectionPool::shared()
    spc,               \* where each caller is: "idle", "acquire", "init"
    sret,              \* the results each caller's calls returned, in order
    outcomes,          \* outcome of every finished ConnectionPool::new, in order
    poolMax,           \* max_connections of the constructed pool
    \* the pool's connection accounting and the database
    borrowed,          \* connections currently borrowed from the pool
    visible,           \* committed effects: <<task, statement index>>
    \* the callers of TransactionExecutor::execute_queries
    epc,               \* "idle", "acquire", "begin", "exec", "rollback", "done"
    batchLen,          \* number of statements of the submitted batch
    idx,               \* `index` of the enumerate() loop
    holds,             \* the call owns an open Transaction (and its connection)
    pending,           \* statement indices applied inside the open transaction
    log,               \* database actions the call issued, in order
    eres,              \* what execute_queries returned
    form,              \* the method called: "execute_queries" or "execute_query"
    \* the demo entry point (main.rs)
    mainPc,            \* "off" (main is not the driver), "shared", "join", "exit"
    mainRes,           \* what main returned
    wpc,               \* where the worker task (resident_feature) is
    wans,              \* the database's answer to the worker's last read
    wret,              \* what the worker's last read helper returned
    wres               \* what resident_feature returned

poolVars == <<envDatabaseUrl, envConnectionPool, cell, permits, closed, spc, sret,
              outcomes, poolMax>>
execVars == <<borrowed, visible, epc, batchLen, idx, holds, pending, log, eres, form>>
demoVars == <<mainPc, mainRes, wpc, wans, wret, wres>>
vars == <<envDatabaseUrl, envConnectionPool, cell, permits, closed, spc, sret,
          outcomes, poolMax, borrowed, visible, epc, batchLen, idx, holds,
          pending, log, eres, form, mainPc, mainRes, wpc, wans, wret, wres>>

\* ------------------------------------------------------------ environment
\* std::env::var(key): Err(NotPresent), or Ok(value) with value a string,
\* here a sequence of characters.
NotPresent == <<"NotPresent">>
EnvOk(s) == <<"Ok", s>>

DatabaseUrlValues == {NotPresent, EnvOk(<<"u">>)}
ConnectionPoolValues ==
    {NotPresent, EnvOk(<<"0">>), EnvOk(<<"1">>), EnvOk(<<"2">>), EnvOk(<<"x">>)}

Digits == {"0", "1", "2", "3", "4", "5", "6", "7", "8", "9"}
DigitVal(ch) ==
    CASE ch = "0" -> 0 [] ch = "1" -> 1 [] ch = "2" -> 2 [] ch = "3" -> 3
      [] ch = "4" -> 4 [] ch = "5" -> 5 [] ch = "6" -> 6 [] ch = "7" -> 7
      [] ch = "8" -> 8 [] ch = "9" -> 9

RECURSIVE DecimalValue(_)
DecimalValue(s) ==
    IF s = <<>> THEN 0
    ELSE 10 * DecimalValue(SubSeq(s, 1, Len(s) - 1)) + DigitVal(s[Len(s)])

\* value.parse::<u32>(): <<"Ok", n>>, or <<"Err">> for an empty string or a
\* non-digit (the strings of ConnectionPoolValues are too short to overflow).
ParseU32(s) ==
    IF s = <<>> \/ \E i \in 1..Len(s) : s[i] \notin Digits
    THEN <<"Err">>
    ELSE <<"Ok", DecimalValue(s)>>

\* read_u32_env(key, default_value)
read_u32_env(value, default_value) ==
    IF value = NotPresent THEN <<"Ok", default_value>>
    ELSE ParseU32(value[2])

\* ConnectionPool::new up to the connect() call: the max_connections it will
\* ask for, or the configuration error it returns before connecting.
NewConfig(databaseUrl, connectionPool) ==
    IF databaseUrl = NotPresent THEN <<"Err">>
    ELSE LET max_connections == read_u32_env(connectionPool, DEFAULT_MAX_CONNECTIONS)
         IN  IF max_connections[1] = "Err" THEN <<"Err">>
             ELSE IF ~(max_connections[2] > 0) THEN <<"Err">>
                  ELSE <<"Ok", max_connections[2]>>

\* ------------------------------------------------------------------- Init
Init ==
    /\ envDatabaseUrl \in DatabaseUrlValues
    /\ envConnectionPool \in ConnectionPoolValues
    /\ cell = NoPool
    /\ permits = 1
    /\ closed = FALSE
    /\ spc = [c \in Callers |-> "idle"]
    /\ sret = [c \in Callers |-> <<>>]
    /\ outcomes = <<>>
    /\ poolMax = 0
    /\ borrowed = 0
    /\ visible = {}
    /\ epc = [t \in Tasks |-> "idle"]
    /\ batchLen = [t \in Tasks |-> 0]
    /\ idx = [t \in Tasks |-> 0]
    /\ holds = [t \in Tasks |-> FALSE]
    /\ pending = [t \in Tasks |-> {}]
    /\ log = [t \in Tasks |-> <<>>]
    /\ eres = [t \in Tasks |-> <<"none">>]
    /\ form = [t \in Tasks |-> "none"]
    /\ mainPc = "off"
    /\ mainRes = <<"none">>
    /\ wpc = "idle"
    /\ wans = <<"none">>
    /\ wret = <<"none">>
    /\ wres = <<"none">>

\* --------------------------------------------- ConnectionPool::shared()
Initialized == cell # NoPool

\* shared() is called; get_or_try_init finds the cell initialized and
\* returns the value, or goes on to semaphore.acquire().
SharedCall(c) ==
    /\ spc[c] = "idle"
    /\ Len(sret[c]) < MaxSharedCalls
    /\ IF Initialized
       THEN /\ sret' = [sret EXCEPT ![c] = Append(@, <<"Ok", cell>>)]
            /\ spc' = spc
       ELSE /\ spc' = [spc EXCEPT ![c] = "acquire"]
            /\ sret' = sret
    /\ UNCHANGED <<envDatabaseUrl, envConnectionPool, cell, permits, closed,
                   outcomes, poolMax>>
    /\ UNCHANGED <<execVars, demoVars>>

\* Mutation of SemaphoreAcquire: the initializer is entered without holding
\* the semaphore's permit (first-time calls are not serialized).
SemaphoreAcquireNoPermit(c) ==
    /\ spc[c] = "acquire"
    /\ \/ /\ closed
          /\ sret' = [sret EXCEPT ![c] = Append(@, <<"Ok", cell>>)]
          /\ spc' = [spc EXCEPT ![c] = "idle"]
       \/ /\ ~closed
          /\ spc' = [spc EXCEPT ![c] = "init"]
          /\ sret' = sret
    /\ UNCHANGED <<envDatabaseUrl, envConnectionPool, cell, permits, closed,
                   outcomes, poolMax>>
    /\ UNCHANGED <<execVars, demoVars>>

\* semaphore.acquire().await resolves: Err when the semaphore is closed (the
\* cell was set meanwhile: return the value), Ok(permit) when a permit is
\* free (run the initializer). Otherwise the caller stays suspended.
SemaphoreAcquire(c) ==
    /\ spc[c] = "acquire"
    /\ \/ /\ closed
          /\ sret' = [sret EXCEPT ![c] = Append(@, <<"Ok", cell>>)]
          /\ spc' = [spc EXCEPT ![c] = "idle"]
          /\ permits' = permits
       \/ /\ ~closed
          /\ permits > 0
          /\ permits' = permits - 1
          /\ spc' = [spc EXCEPT ![c] = "init"]
          /\ sret' = sret
    /\ UNCHANGED <<envDatabaseUrl, envConnectionPool, cell, closed, outcomes, poolMax>>
    /\ UNCHANGED <<execVars, demoVars>>

\* Mutation of InitSucceeds: the value is stored but the permit is given back
\* and the semaphore left open, so a suspended caller initializes again.
InitSucceedsReleasesPermit(c) ==
    /\ spc[c] = "init"
    /\ NewConfig(envDatabaseUrl, envConnectionPool)[1] = "Ok"
    /\ cell' = Len(outcomes) + 1
    /\ poolMax' = NewConfig(envDatabaseUrl, envConnectionPool)[2]
    /\ permits' = permits + 1
    /\ outcomes' = Append(outcomes, "ok")
    /\ sret' = [sret EXCEPT ![c] = Append(@, <<"Ok", cell'>>)]
    /\ spc' = [spc EXCEPT ![c] = "idle"]
    /\ UNCHANGED <<envDatabaseUrl, envConnectionPool, closed>>
    /\ UNCHANGED <<execVars, demoVars>>

\* The initializer Self::new() succeeded: set_value stores the Arc, closes
\* the semaphore and forgets the permit; shared() returns a clone of it.
InitSucceeds(c) ==
    /\ spc[c] = "init"
    /\ NewConfig(envDatabaseUrl, envConnectionPool)[1] = "Ok"
    /\ cell' = Len(outcomes) + 1
    /\ poolMax' = NewConfig(envDatabaseUrl, envConnectionPool)[2]
    /\ closed' = TRUE
    /\ outcomes' = Append(outcomes, "ok")
    /\ sret' = [sret EXCEPT ![c] = Append(@, <<"Ok", cell'>>)]
    /\ spc' = [spc EXCEPT ![c] = "idle"]
    /\ UNCHANGED <<envDatabaseUrl, envConnectionPool, permits>>
    /\ UNCHANGED <<execVars, demoVars>>

\* Mutation of InitFails: the failed attempt keeps the permit (the failure
\* is made final instead of leaving the cell open for the next caller).
InitFailsKeepsPermit(c) ==
    /\ spc[c] = "init"
    /\ outcomes' = Append(outcomes, "err")
    /\ sret' = [sret EXCEPT ![c] = Append(@, <<"Err">>)]
    /\ spc' = [spc EXCEPT ![c] = "idle"]
    /\ UNCHANGED <<envDatabaseUrl, envConnectionPool, cell, permits, closed, poolMax>>
    /\ UNCHANGED <<execVars, demoVars>>

\* The initializer failed (configuration, or connect()): the error goes to
\* this caller through `?`, the permit is dropped and so released, the cell
\* stays empty.
InitFails(c) ==
    /\ spc[c] = "init"
    /\ outcomes' = Append(outcomes, "err")
    /\ permits' = permits + 1
    /\ sret' = [sret EXCEPT ![c] = Append(@, <<"Err">>)]
    /\ spc' = [spc EXCEPT ![c] = "idle"]
    /\ UNCHANGED <<envDatabaseUrl, envConnectionPool, cell, closed, poolMax>>
    /\ UNCHANGED <<execVars, demoVars>>

PoolNext ==
    \E c \in Callers :
        \/ SharedCall(c)
        \/ SemaphoreAcquire(c)
        \/ InitSucceeds(c)
        \/ InitFails(c)

\* --------------------------------- TransactionExecutor::execute_queries
\* The anyhow error execute_queries returns: the context message put on it,
\* the statement index formatted into the message (NoIndex when the message
\* has none) and the underlying sqlx failure it wraps.
ErrResult(context, index, cause) == <<"Err", context, index, cause>>
OkResult == <<"Ok">>

CtxBegin == "Failed to start database transaction"
CtxRollback == "Failed to rollback transaction"
CtxExecute == "Failed to execute query in transaction at index"
CtxCommit == "Failed to commit transaction"

\* All effects a batch of n statements can have.
BatchEffects(t, n) == {<<t, i>> : i \in 0..(n - 1)}
\* The effects of task t's batch that are visible outside its transaction.
VisibleOf(t) == {e \in visible : e[1] = t}

\* Mutation of AfterExecute: a failed statement does not leave the loop.
AfterExecuteStaysInLoop(ok) == "exec"

\* What the loop does after query.execute(&mut *tx).await: go on with the
\* next statement, or leave the loop through the rollback branch.
AfterExecute(ok) == IF ok THEN "exec" ELSE "rollback"

\* Mutation of RollbackBranchResult: the rollback's own failure is dropped
\* and the statement's error returned.
RollbackBranchKeepsStatementError(rollback_ok, index) ==
    ErrResult(CtxExecute, index, "execute")

\* Mutation of RollbackBranchResult: the message carries a one-based position.
RollbackBranchOneBased(rollback_ok, index) ==
    IF rollback_ok
    THEN ErrResult(CtxExecute, index + 1, "execute")
    ELSE ErrResult(CtxRollback, NoIndex, "rollback")

\* The value of the rollback branch: the `?` on tx.rollback() returns the
\* rollback failure; otherwise the statement's error with its index.
RollbackBranchResult(rollback_ok, index) ==
    IF rollback_ok
    THEN ErrResult(CtxExecute, index, "execute")
    ELSE ErrResult(CtxRollback, NoIndex, "rollback")

\* Mutation of CommitBranchResult: the commit's failure is dropped.
CommitBranchIgnoresError(commit_ok) == OkResult

\* The value after the loop: the `?` on tx.commit() returns the commit
\* failure; otherwise Ok(()).
CommitBranchResult(commit_ok) ==
    IF commit_ok THEN OkResult ELSE ErrResult(CtxCommit, NoIndex, "commit")

\* Mutation of VisibleAfterRollback: the failure branch commits what the
\* transaction holds instead of rolling it back.
VisibleAfterRollbackCommits(vis, t, pend) == vis \cup {<<t, i>> : i \in pend}

\* The database after tx.rollback(): nothing of the transaction is published,
\* whether the ROLLBACK was acknowledged or not (no COMMIT was ever sent, and
\* dropping the Transaction discards it).
VisibleAfterRollback(vis, t, pend) == vis

\* The database after tx.commit(): a COMMIT that succeeds publishes every
\* effect of the transaction at once; a COMMIT that fails publishes none.
VisibleAfterCommit(vis, t, pend, commit_ok) ==
    IF commit_ok THEN vis \cup {<<t, i>> : i \in pend} ELSE vis

\* Mutation of ReleaseConnection: the dropped value keeps its connection.
ReleaseConnectionLeaks(n) == n

\* The pool's accounting when a Transaction (or a PoolConnection) is dropped:
\* the connection goes back to the pool.
ReleaseConnection(n) == n - 1

\* Mutation of ExecuteQueries: an empty batch returns Ok(()) at once, without
\* a connection or a transaction.
ExecuteQueriesSkipsEmpty(t) ==
    /\ epc[t] = "idle"
    /\ Initialized
    /\ \E n \in 0..MaxBatch :
        /\ batchLen' = [batchLen EXCEPT ![t] = n]
        /\ epc' = [epc EXCEPT ![t] = IF n = 0 THEN "done" ELSE "acquire"]
        /\ eres' = [eres EXCEPT ![t] = IF n = 0 THEN OkResult ELSE @]
    /\ form' = [form EXCEPT ![t] = "execute_queries"]
    /\ UNCHANGED <<borrowed, visible, idx, holds, pending, log>>
    /\ UNCHANGED <<poolVars, demoVars>>

\* execute_queries(queries) is called on an executor made from the shared
\* pool; the future starts with self.pool.begin().
ExecuteQueries(t) ==
    /\ epc[t] = "idle"
    /\ Initialized
    /\ \E n \in 0..MaxBatch : batchLen' = [batchLen EXCEPT ![t] = n]
    /\ epc' = [epc EXCEPT ![t] = "acquire"]
    /\ form' = [form EXCEPT ![t] = "execute_queries"]
    /\ UNCHANGED <<borrowed, visible, idx, holds, pending, log, eres>>
    /\ UNCHANGED <<poolVars, demoVars>>

\* Mutation of IterOnce: the convenience form hands over an empty iterator.
IterOnceEmpty(query) == <<>>

\* std::iter::once(query): the sequence holding that one statement.
IterOnce(query) == <<query>>

\* execute_query(query) calls self.execute_queries(std::iter::once(query)).
ExecuteQuery(t) ==
    /\ epc[t] = "idle"
    /\ Initialized
    /\ batchLen' = [batchLen EXCEPT ![t] = Len(IterOnce("query"))]
    /\ epc' = [epc EXCEPT ![t] = "acquire"]
    /\ form' = [form EXCEPT ![t] = "execute_query"]
    /\ UNCHANGED <<borrowed, visible, idx, holds, pending, log, eres>>
    /\ UNCHANGED <<poolVars, demoVars>>

\* Mutation of AcquireConnection: the pool hands out a connection although
\* max_connections are already out.
AcquireConnectionUnbounded(t) ==
    /\ epc[t] = "acquire"
    /\ borrowed' = borrowed + 1
    /\ epc' = [epc EXCEPT ![t] = "begin"]
    /\ UNCHANGED <<visible, batchLen, idx, holds, pending, log, eres, form>>
    /\ UNCHANGED <<poolVars, demoVars>>

\* pool.begin(), first half: a connection is borrowed when the pool has one
\* to give (fewer than max_connections are out).
AcquireConnection(t) ==
    /\ epc[t] = "acquire"
    /\ borrowed < poolMax
    /\ borrowed' = borrowed + 1
    /\ epc' = [epc EXCEPT ![t] = "begin"]
    /\ UNCHANGED <<visible, batchLen, idx, holds, pending, log, eres, form>>
    /\ UNCHANGED <<poolVars, demoVars>>

\* pool.begin(), first half: acquire_timeout elapses while every connection
\* is out; the `?` returns the error.
AcquireTimeout(t) ==
    /\ epc[t] = "acquire"
    /\ borrowed >= poolMax
    /\ eres' = [eres EXCEPT ![t] = ErrResult(CtxBegin, NoIndex, "acquire")]
    /\ epc' = [epc EXCEPT ![t] = "done"]
    /\ UNCHANGED <<borrowed, visible, batchLen, idx, holds, pending, log, form>>
    /\ UNCHANGED <<poolVars, demoVars>>

\* Mutation of BeginTransaction: when BEGIN fails the connection is not given
\* back.
BeginTransactionLeaks(t) ==
    /\ epc[t] = "begin"
    /\ \E ok \in BOOLEAN :
        IF ok
        THEN /\ holds' = [holds EXCEPT ![t] = TRUE]
             /\ log' = [log EXCEPT ![t] = Append(@, <<"begin">>)]
             /\ epc' = [epc EXCEPT ![t] = "exec"]
             /\ UNCHANGED <<borrowed, eres>>
        ELSE /\ eres' = [eres EXCEPT ![t] = ErrResult(CtxBegin, NoIndex, "begin")]
             /\ epc' = [epc EXCEPT ![t] = "done"]
             /\ UNCHANGED <<borrowed, holds, log>>
    /\ UNCHANGED <<visible, batchLen, idx, pending, form>>
    /\ UNCHANGED <<poolVars, demoVars>>

\* pool.begin(), second half: BEGIN on the borrowed connection. On failure
\* the connection is dropped back into the pool and the `?` returns.
BeginTransaction(t) ==
    /\ epc[t] = "begin"
    /\ \E ok \in BOOLEAN :
        IF ok
        THEN /\ holds' = [holds EXCEPT ![t] = TRUE]
             /\ log' = [log EXCEPT ![t] = Append(@, <<"begin">>)]
             /\ epc' = [epc EXCEPT ![t] = "exec"]
             /\ UNCHANGED <<borrowed, eres>>
        ELSE /\ borrowed' = ReleaseConnection(borrowed)
             /\ eres' = [eres EXCEPT ![t] = ErrResult(CtxBegin, NoIndex, "begin")]
             /\ epc' = [epc EXCEPT ![t] = "done"]
             /\ UNCHANGED <<holds, log>>
    /\ UNCHANGED <<visible, batchLen, idx, pending, form>>
    /\ UNCHANGED <<poolVars, demoVars>>

\* Mutation of ExecuteStatement: the statement is executed on the pool, which
\* takes a second connection while the transaction keeps the first.
ExecuteStatementOnPool(t) ==
    /\ epc[t] = "exec"
    /\ idx[t] < batchLen[t]
    /\ borrowed < poolMax
    /\ \E ok \in BOOLEAN :
        /\ log' = [log EXCEPT ![t] = Append(@, <<"execute", idx[t], ok>>)]
        /\ epc' = [epc EXCEPT ![t] = AfterExecute(ok)]
        /\ IF ok
           THEN /\ pending' = [pending EXCEPT ![t] = @ \cup {idx[t]}]
                /\ idx' = [idx EXCEPT ![t] = @ + 1]
           ELSE UNCHANGED <<pending, idx>>
    /\ UNCHANGED <<borrowed, visible, batchLen, holds, eres, form>>
    /\ UNCHANGED <<poolVars, demoVars>>

\* One turn of the loop: query.execute(&mut *tx).await on statement `index`.
ExecuteStatement(t) ==
    /\ epc[t] = "exec"
    /\ idx[t] < batchLen[t]
    /\ \E ok \in BOOLEAN :
        /\ log' = [log EXCEPT ![t] = Append(@, <<"execute", idx[t], ok>>)]
        /\ epc' = [epc EXCEPT ![t] = AfterExecute(ok)]
        /\ IF ok
           THEN /\ pending' = [pending EXCEPT ![t] = @ \cup {idx[t]}]
                /\ idx' = [idx EXCEPT ![t] = @ + 1]
           ELSE UNCHANGED <<pending, idx>>
    /\ UNCHANGED <<borrowed, visible, batchLen, holds, eres, form>>
    /\ UNCHANGED <<poolVars, demoVars>>

\* Mutation of Rollback: the branch lacks its return; after the rollback the
\* loop goes on with the next statement.
RollbackFallsThrough(t) ==
    /\ epc[t] = "rollback"
    /\ \E ok \in BOOLEAN :
        log' = [log EXCEPT ![t] = Append(@, <<"rollback", ok>>)]
    /\ visible' = VisibleAfterRollback(visible, t, pending[t])
    /\ pending' = [pending EXCEPT ![t] = {}]
    /\ idx' = [idx EXCEPT ![t] = @ + 1]
    /\ epc' = [epc EXCEPT ![t] = "exec"]
    /\ UNCHANGED <<borrowed, holds, eres, batchLen, form>>
    /\ UNCHANGED <<poolVars, demoVars>>

\* The rollback branch: tx.rollback().await, then the return. The
\* Transaction is consumed either way and its connection released.
Rollback(t) ==
    /\ epc[t] = "rollback"
    /\ \E ok \in BOOLEAN :
        /\ log' = [log EXCEPT ![t] = Append(@, <<"rollback", ok>>)]
        /\ eres' = [eres EXCEPT ![t] = RollbackBranchResult(ok, idx[t])]
    /\ visible' = VisibleAfterRollback(visible, t, pending[t])
    /\ pending' = [pending EXCEPT ![t] = {}]
    /\ holds' = [holds EXCEPT ![t] = FALSE]
    /\ borrowed' = ReleaseConnection(borrowed)
    /\ epc' = [epc EXCEPT ![t] = "done"]
    /\ UNCHANGED <<batchLen, idx, form>>
    /\ UNCHANGED <<poolVars, demoVars>>

\* The iterator is exhausted: tx.commit().await, then the return. The
\* Transaction is consumed either way and its connection released.
Commit(t) ==
    /\ epc[t] = "exec"
    /\ idx[t] = batchLen[t]
    /\ \E ok \in BOOLEAN :
        /\ log' = [log EXCEPT ![t] = Append(@, <<"commit", ok>>)]
        /\ eres' = [eres EXCEPT ![t] = CommitBranchResult(ok)]
        /\ visible' = VisibleAfterCommit(visible, t, pending[t], ok)
    /\ pending' = [pending EXCEPT ![t] = {}]
    /\ holds' = [holds EXCEPT ![t] = FALSE]
    /\ borrowed' = ReleaseConnection(borrowed)
    /\ epc' = [epc EXCEPT ![t] = "done"]
    /\ UNCHANGED <<batchLen, idx, form>>
    /\ UNCHANGED <<poolVars, demoVars>>

ExecNext ==
    \E t \in Tasks :
        \/ ExecuteQueries(t)
        \/ ExecuteQuery(t)
        \/ AcquireConnection(t)
        \/ AcquireTimeout(t)
        \/ BeginTransaction(t)
        \/ ExecuteStatement(t)
        \/ Rollback(t)
        \/ Commit(t)

Next == PoolNext \/ ExecNext

\* The whole program: callers of shared() and, once the pool exists, callers
\* of execute_queries.
Spec == Init /\ [][Next]_vars

\* The shared-pool initializer on its own.
SpecShared == Init /\ [][PoolNext]_vars

\* The state main() is in after `ConnectionPool::shared().await?` returned
\* and the executor was made from the pool (main.rs:11-12): the first call of
\* shared() constructed pool 1 from a valid configuration.
InitExec ==
    /\ envDatabaseUrl \in DatabaseUrlValues
    /\ envConnectionPool \in ConnectionPoolValues
    /\ NewConfig(envDatabaseUrl, envConnectionPool)[1] = "Ok"
    /\ cell = 1
    /\ permits = 0
    /\ closed = TRUE
    /\ spc = [c \in Callers |-> "idle"]
    /\ sret = [c \in Callers |-> IF c = 1 THEN <<(<<"Ok", 1>>)>> ELSE <<>>]
    /\ outcomes = <<"ok">>
    /\ poolMax = NewConfig(envDatabaseUrl, envConnectionPool)[2]
    /\ borrowed = 0
    /\ visible = {}
    /\ epc = [t \in Tasks |-> "idle"]
    /\ batchLen = [t \in Tasks |-> 0]
    /\ idx = [t \in Tasks |-> 0]
    /\ holds = [t \in Tasks |-> FALSE]
    /\ pending = [t \in Tasks |-> {}]
    /\ log = [t \in Tasks |-> <<>>]
    /\ eres = [t \in Tasks |-> <<"none">>]
    /\ form = [t \in Tasks |-> "none"]
    /\ mainPc = "off"
    /\ mainRes = <<"none">>
    /\ wpc = "idle"
    /\ wans = <<"none">>
    /\ wret = <<"none">>
    /\ wres = <<"none">>

\* The executor on the pool main() obtained.
SpecExec == InitExec /\ [][ExecNext]_vars
\* ---------------------------------------- read helpers (fetch_one, fetch_all)
\* A row as the database returns it: <<column name, value>>.
RowValues == {<<"value", 1>>, <<"value", 2>>, <<"v", 1>>}
RowSeqs == UNION {[1..n -> RowValues] : n \in 0..MaxRows}
\* What the database answers a read with: the query failed, or its rows.
Answers == {<<"error">>} \cup {<<"rows", rows>> : rows \in RowSeqs}

CtxFetchOptional == "Failed to fetch optional row"
CtxFetchRows == "Failed to fetch rows"
ReadErr(context, cause) == <<"Err", context, cause>>

\* The mapper of the demo's queries: row.try_get("value").
TryGetValue(row) == IF row[1] = "value" THEN <<"Ok", row[2]>> ELSE <<"Err">>

\* Mutation of FetchOneResult: no row is an error (fetch_one of the driver
\* instead of fetch_optional).
FetchOneResultRowNotFound(answer) ==
    IF answer[1] # "rows" THEN ReadErr(CtxFetchOptional, "execute")
    ELSE IF answer[2] = <<>> THEN ReadErr(CtxFetchOptional, "execute")
    ELSE LET decoded == TryGetValue(answer[2][1])
         IN  IF decoded[1] = "Ok" THEN <<"Ok", <<"Some", decoded[2]>>>>
             ELSE ReadErr(CtxFetchOptional, "decode")

\* fetch_one: query.fetch_optional(pool).await.context(...)?; Ok(row). The
\* driver takes the first row, if any, and maps it.
FetchOneResult(answer) ==
    IF answer[1] # "rows" THEN ReadErr(CtxFetchOptional, "execute")
    ELSE IF answer[2] = <<>> THEN <<"Ok", <<"None">>>>
    ELSE LET decoded == TryGetValue(answer[2][1])
         IN  IF decoded[1] = "Ok" THEN <<"Ok", <<"Some", decoded[2]>>>>
             ELSE ReadErr(CtxFetchOptional, "decode")

\* The rows mapped in result order, up to the first one that fails to decode.
RECURSIVE DecodeAll(_)
DecodeAll(rows) ==
    IF rows = <<>> THEN <<"Ok", <<>>>>
    ELSE LET decoded == TryGetValue(rows[1])
             rest == DecodeAll(SubSeq(rows, 2, Len(rows)))
         IN  IF decoded[1] = "Err" \/ rest[1] = "Err" THEN <<"Err">>
             ELSE <<"Ok", <<decoded[2]>> \o rest[2]>>

\* fetch_all: query.fetch_all(pool).await.context(...)?; Ok(rows).
FetchAllResult(answer) ==
    IF answer[1] # "rows" THEN ReadErr(CtxFetchRows, "execute")
    ELSE IF DecodeAll(answer[2])[1] = "Err" THEN ReadErr(CtxFetchRows, "decode")
    ELSE <<"Ok", DecodeAll(answer[2])[2]>>

\* ------------------------------------------------------ the demo (main.rs)
MainCaller == 1        \* main is the caller of shared()
BatchTask == 1         \* the task running scheduled_batch_feature
UiTask == 2            \* the task running screen_feature
BatchFeatureLen == 2   \* vec![sqlx::query("SELECT 1"), sqlx::query("SELECT 1")]

\* main awaits ConnectionPool::shared() (main.rs:11).
MainShared ==
    /\ mainPc = "shared"
    /\ sret[MainCaller] = <<>>
    /\ \/ SharedCall(MainCaller)
       \/ SemaphoreAcquire(MainCaller)
       \/ InitSucceeds(MainCaller)
       \/ InitFails(MainCaller)

\* shared() returned Err: the `?` of main.rs:11 ends main.
MainSharedFailed ==
    /\ mainPc = "shared"
    /\ sret[MainCaller] # <<>>
    /\ sret[MainCaller][1][1] = "Err"
    /\ mainRes' = <<"Err", "shared", sret[MainCaller][1]>>
    /\ mainPc' = "exit"
    /\ UNCHANGED <<poolVars, execVars, wpc, wans, wret, wres>>

\* shared() returned the pool: main makes the executor, spawns the three
\* tasks and awaits try_join! (main.rs:12-22).
MainSpawn ==
    /\ mainPc = "shared"
    /\ sret[MainCaller] # <<>>
    /\ sret[MainCaller][1][1] = "Ok"
    /\ mainPc' = "join"
    /\ UNCHANGED <<poolVars, execVars, mainRes, wpc, wans, wret, wres>>

\* The spawned scheduled_batch_feature starts: execute_queries on two
\* statements.
ScheduledBatchFeature ==
    /\ mainPc = "join"
    /\ ExecuteQueries(BatchTask)
    /\ batchLen'[BatchTask] = BatchFeatureLen

\* The spawned screen_feature starts: execute_query on one statement.
ScreenFeature ==
    /\ mainPc = "join"
    /\ ExecuteQuery(UiTask)

\* The spawned resident_feature starts: health_check calls fetch_one.
ResidentFeature ==
    /\ mainPc = "join"
    /\ wpc = "idle"
    /\ wpc' = "fo_acquire"
    /\ UNCHANGED <<poolVars, execVars, mainPc, mainRes, wans, wret, wres>>

\* A read helper's query borrows a connection when the pool has one to give.
WorkerAcquire ==
    /\ wpc \in {"fo_acquire", "fa_acquire"}
    /\ borrowed < poolMax
    /\ borrowed' = borrowed + 1
    /\ wpc' = IF wpc = "fo_acquire" THEN "fo_fetch" ELSE "fa_fetch"
    /\ UNCHANGED <<visible, epc, batchLen, idx, holds, pending, log, eres, form>>
    /\ UNCHANGED <<poolVars, mainPc, mainRes, wans, wret, wres>>

\* acquire_timeout elapses while every connection is out: the read helper
\* returns the error with its context.
WorkerAcquireTimeout ==
    /\ wpc \in {"fo_acquire", "fa_acquire"}
    /\ borrowed >= poolMax
    /\ wans' = <<"timeout">>
    /\ wret' = IF wpc = "fo_acquire" THEN ReadErr(CtxFetchOptional, "acquire")
               ELSE ReadErr(CtxFetchRows, "acquire")
    /\ wpc' = IF wpc = "fo_acquire" THEN "fo_ret" ELSE "fa_ret"
    /\ UNCHANGED <<poolVars, execVars, mainPc, mainRes, wres>>

\* The database answers the query; the connection goes back to the pool and
\* the read helper returns.
WorkerFetch ==
    /\ wpc \in {"fo_fetch", "fa_fetch"}
    /\ \E answer \in Answers :
        /\ wans' = answer
        /\ wret' = IF wpc = "fo_fetch" THEN FetchOneResult(answer)
                   ELSE FetchAllResult(answer)
    /\ borrowed' = ReleaseConnection(borrowed)
    /\ wpc' = IF wpc = "fo_fetch" THEN "fo_ret" ELSE "fa_ret"
    /\ UNCHANGED <<visible, epc, batchLen, idx, holds, pending, log, eres, form>>
    /\ UNCHANGED <<poolVars, mainPc, mainRes, wres>>

\* The `?` after health_check and after fetch_all: an error ends
\* resident_feature; otherwise the value is dropped and the function goes on
\* (to fetch_all, then to Ok(())).
WorkerReturn ==
    /\ wpc \in {"fo_ret", "fa_ret"}
    /\ IF wret[1] = "Err"
       THEN /\ wres' = wret
            /\ wpc' = "done"
       ELSE IF wpc = "fo_ret"
            THEN /\ wpc' = "fa_acquire"
                 /\ wres' = wres
            ELSE /\ wpc' = "done"
                 /\ wres' = OkResult
    /\ wans' = <<"none">>
    /\ wret' = <<"none">>
    /\ UNCHANGED <<poolVars, execVars, mainPc, mainRes>>

WorkerNext ==
    \/ ResidentFeature
    \/ WorkerAcquire
    \/ WorkerAcquireTimeout
    \/ WorkerFetch
    \/ WorkerReturn

\* Mutation of JoinResult: the ui task's result is not looked at.
JoinResultDropsUi(worker_result, batch_result, ui_result) ==
    IF worker_result[1] = "Err" THEN <<"Err", "worker", worker_result>>
    ELSE IF batch_result[1] = "Err" THEN <<"Err", "batch", batch_result>>
    ELSE OkResult

\* worker_result?; batch_result?; ui_result?; Ok(()) (main.rs:23-29).
JoinResult(worker_result, batch_result, ui_result) ==
    IF worker_result[1] = "Err" THEN <<"Err", "worker", worker_result>>
    ELSE IF batch_result[1] = "Err" THEN <<"Err", "batch", batch_result>>
    ELSE IF ui_result[1] = "Err" THEN <<"Err", "ui", ui_result>>
    ELSE OkResult

\* try_join! resolves when the three tasks have finished; main unwraps their
\* results in the order worker, batch, ui.
MainJoin ==
    /\ mainPc = "join"
    /\ wpc = "done"
    /\ epc[BatchTask] = "done"
    /\ epc[UiTask] = "done"
    /\ mainRes' = JoinResult(wres, eres[BatchTask], eres[UiTask])
    /\ mainPc' = "exit"
    /\ UNCHANGED <<poolVars, execVars, wpc, wans, wret, wres>>

\* The steps of a call of execute_queries after it was made.
ExecStep(t) ==
    \/ AcquireConnection(t)
    \/ AcquireTimeout(t)
    \/ BeginTransaction(t)
    \/ ExecuteStatement(t)
    \/ Rollback(t)
    \/ Commit(t)

MainNext ==
    \/ MainShared
    \/ MainSharedFailed
    \/ MainSpawn
    \/ ScheduledBatchFeature
    \/ ScreenFeature
    \/ WorkerNext
    \/ \E t \in Tasks : ExecStep(t)
    \/ MainJoin

\* The process at the start of main: nothing initialized, nothing spawned.
InitMain ==
    /\ envDatabaseUrl \in DatabaseUrlValues
    /\ envConnectionPool \in ConnectionPoolValues
    /\ cell = NoPool
    /\ permits = 1
    /\ closed = FALSE
    /\ spc = [c \in Callers |-> "idle"]
    /\ sret = [c \in Callers |-> <<>>]
    /\ outcomes = <<>>
    /\ poolMax = 0
    /\ borrowed = 0
    /\ visible = {}
    /\ epc = [t \in Tasks |-> "idle"]
    /\ batchLen = [t \in Tasks |-> 0]
    /\ idx = [t \in Tasks |-> 0]
    /\ holds = [t \in Tasks |-> FALSE]
    /\ pending = [t \in Tasks |-> {}]
    /\ log = [t \in Tasks |-> <<>>]
    /\ eres = [t \in Tasks |-> <<"none">>]
    /\ form = [t \in Tasks |-> "none"]
    /\ mainPc = "shared"
    /\ mainRes = <<"none">>
    /\ wpc = "idle"
    /\ wans = <<"none">>
    /\ wret = <<"none">>
    /\ wres = <<"none">>

\* The demo program.
SpecMain == InitMain /\ [][MainNext]_vars

\* ================================================================ claims
\* ---------------------------------------------- shared pool (SpecShared)
\* Pools constructed so far: the ConnectionPool::new calls that returned Ok.
PoolsConstructed == {i \in 1..Len(outcomes) : outcomes[i] = "ok"}
FailedAttempts == {i \in 1..Len(outcomes) : outcomes[i] = "err"}
\* The calls of shared() that have returned, as <<caller, call number>>.
Returned == {ci \in Callers \X (1..MaxSharedCalls) : ci[2] <= Len(sret[ci[1]])}
ReturnedOk == {ci \in Returned : sret[ci[1]][ci[2]][1] = "Ok"}
ReturnedErr == {ci \in Returned : sret[ci[1]][ci[2]][1] = "Err"}
Initializing == {c \in Callers : spc[c] = "init"}
Suspended == {c \in Callers : spc[c] = "acquire"}

\* C1: however many callers call shared(), at the same time or one after the
\* other, at most one pool is ever constructed; every handle a caller
\* receives is a handle to that one pool (the one the cell holds), so as soon
\* as one call has succeeded exactly one pool exists; and once the cell is
\* initialized no caller is constructing, or will construct, another.
C1_SinglePool ==
    /\ Cardinality(PoolsConstructed) <= 1
    /\ \A ci \in ReturnedOk : /\ Initialized
                              /\ sret[ci[1]][ci[2]][2] = cell
    /\ ReturnedOk # {} => Cardinality(PoolsConstructed) = 1
    /\ Initialized => /\ Cardinality(PoolsConstructed) = 1
                      /\ Initializing = {}
                      /\ \A c \in Callers : ~ENABLED (PoolNext /\ spc'[c] = "init")

\* C1 witness: every caller has made all its calls, each returned a handle,
\* and one pool was constructed.
C1_Witness ==
    /\ \A c \in Callers : Len(sret[c]) = MaxSharedCalls
    /\ Returned = ReturnedOk
    /\ Cardinality(PoolsConstructed) = 1

\* C2 as stated: once the first construction attempt has failed, the failure
\* is final: no other attempt is run (none in flight, none finished) and
\* every call that has returned returned an error.
C2_FailureCached ==
    (Len(outcomes) >= 1 /\ outcomes[1] = "err") =>
        /\ Len(outcomes) = 1
        /\ Initializing = {}
        /\ Returned = ReturnedErr

\* C2 amended: a failed construction attempt is not cached. The error goes
\* only to the caller that ran the failed attempt (as many errors were
\* returned as attempts failed), the cell stays empty and the permit is given
\* back, so that while the cell is empty and no attempt is in flight every
\* suspended caller can start a construction attempt of its own.
C2_FailureNotCached ==
    /\ Cardinality(ReturnedErr) = Cardinality(FailedAttempts)
    /\ PoolsConstructed = {} => ~Initialized /\ ~closed
    /\ (~Initialized /\ Initializing = {}) =>
           /\ permits = 1
           /\ \A c \in Suspended : ENABLED (SemaphoreAcquire(c) /\ spc'[c] = "init")

\* C2 witness: the first attempt failed, a later attempt constructed the
\* pool, and callers hold both the error and a handle.
C2_Witness ==
    /\ Len(outcomes) >= 2
    /\ outcomes[1] = "err"
    /\ PoolsConstructed # {}
    /\ ReturnedErr # {}
    /\ ReturnedOk # {}

\* C3: first-time calls are serialized: at most one construction attempt is
\* in flight, it holds the only permit, and a caller that arrives meanwhile
\* stays suspended (it can neither start an attempt nor return) until the
\* attempt completes.
C3_Serialized ==
    /\ Cardinality(Initializing) <= 1
    /\ Initializing # {} =>
           /\ permits = 0
           /\ ~Initialized
           /\ \A c \in Suspended : ~ENABLED SemaphoreAcquire(c)

\* C3 witness: one caller is constructing while another is suspended on the
\* semaphore.
C3_Witness ==
    /\ Initializing # {}
    /\ Suspended # {}
\* ------------------------------------------------- executor (SpecExec)
Done(t) == epc[t] = "done"
LastLog(t) == log[t][Len(log[t])]
\* Positions in the log of the statements the call executed.
Executions(t) == {j \in 1..Len(log[t]) : log[t][j][1] = "execute"}
FailedExecutions(t) == {j \in Executions(t) : ~log[t][j][3]}
\* Every statement of the batch was executed and succeeded.
AllSucceeded(t) ==
    /\ Len(log[t]) >= 1
    /\ Cardinality(Executions(t)) = batchLen[t]
    /\ FailedExecutions(t) = {}
IssuedCommit(t) == \E j \in 1..Len(log[t]) : log[t][j][1] = "commit"
IssuedRollback(t) == \E j \in 1..Len(log[t]) : log[t][j][1] = "rollback"

\* C4: when every statement of the batch succeeded the call ends with a
\* commit (and no rollback); the call returns Ok(()) exactly when that commit
\* succeeded, and then every effect of the batch is visible.
C4_CommitOnSuccess ==
    \A t \in Tasks :
        /\ (Done(t) /\ AllSucceeded(t)) =>
               /\ LastLog(t)[1] = "commit"
               /\ ~IssuedRollback(t)
               /\ LastLog(t)[2] => eres[t] = OkResult
        /\ eres[t] = OkResult =>
               /\ Done(t)
               /\ AllSucceeded(t)
               /\ LastLog(t) = <<"commit", TRUE>>
               /\ VisibleOf(t) = BatchEffects(t, batchLen[t])

\* C4 witness: a call with a batch of the greatest length returned Ok(()).
C4_Witness ==
    \E t \in Tasks :
        /\ Done(t)
        /\ batchLen[t] = MaxBatch
        /\ eres[t] = OkResult
        /\ VisibleOf(t) = BatchEffects(t, MaxBatch)

\* C5: when the statement at index k fails after statements 0..k-1 succeeded,
\* the next and last database action of the call is a rollback, the call
\* returns an error, none of the batch's effects is visible afterwards, and,
\* the rollback having succeeded, the error is the statement's error with
\* index k (a failed rollback is C7's case).
C5_RollbackOnFailure ==
    \A t \in Tasks : \A j \in FailedExecutions(t) :
        LET k == log[t][j][2] IN
        /\ \A i \in 0..(k - 1) : <<"execute", i, TRUE>> = log[t][i + 2]
        /\ j = k + 2
        /\ Done(t) =>
               /\ Len(log[t]) = j + 1
               /\ LastLog(t)[1] = "rollback"
               /\ eres[t][1] = "Err"
               /\ VisibleOf(t) = {}
               /\ LastLog(t)[2] => eres[t] = ErrResult(CtxExecute, k, "execute")

\* C5 witness: a call whose last statement failed after an earlier one had
\* succeeded has rolled back and returned the positioned error.
C5_Witness ==
    \E t \in Tasks :
        /\ Done(t)
        /\ batchLen[t] = MaxBatch
        /\ Len(log[t]) >= 3
        /\ log[t][Len(log[t]) - 1] = <<"execute", MaxBatch - 1, FALSE>>
        /\ LastLog(t) = <<"rollback", TRUE>>
        /\ eres[t] = ErrResult(CtxExecute, MaxBatch - 1, "execute")

\* C6: in every state, whatever the other calls are doing and however a call
\* ended, the effects of a batch that are visible outside its transaction are
\* all of them or none of them.
C6_Atomicity ==
    \A t \in Tasks :
        \/ VisibleOf(t) = {}
        \/ VisibleOf(t) = BatchEffects(t, batchLen[t])

\* C6 witness: one batch is wholly visible while another call, which had
\* applied a statement inside its transaction, ended in a failed rollback
\* with nothing visible.
C6_Witness ==
    \E t \in Tasks, u \in Tasks :
        /\ batchLen[t] >= 2
        /\ VisibleOf(t) = BatchEffects(t, batchLen[t])
        /\ Done(u)
        /\ Len(log[u]) >= 4
        /\ log[u][2] = <<"execute", 0, TRUE>>
        /\ LastLog(u) = <<"rollback", FALSE>>
        /\ VisibleOf(u) = {}

\* C7: when a statement failed and the rollback failed too, the call returns
\* the rollback failure: its message is the rollback's, it wraps the
\* rollback's cause and it carries no statement index.
C7_RollbackErrorSupersedes ==
    \A t \in Tasks :
        (Done(t) /\ FailedExecutions(t) # {} /\ LastLog(t) = <<"rollback", FALSE>>) =>
            /\ eres[t] = ErrResult(CtxRollback, NoIndex, "rollback")
            /\ eres[t][2] # CtxExecute
            /\ eres[t][3] = NoIndex
            /\ eres[t][4] # "execute"

\* C7 witness: a call whose statement at a positive index failed and whose
\* rollback failed has returned.
C7_Witness ==
    \E t \in Tasks :
        /\ Done(t)
        /\ \E j \in FailedExecutions(t) : log[t][j][2] >= 1
        /\ LastLog(t) = <<"rollback", FALSE>>

\* C8: when every statement succeeded and the commit failed, the call
\* returns the commit error, never Ok(()), and none of the batch's effects is
\* visible.
C8_CommitFailure ==
    \A t \in Tasks :
        (Done(t) /\ AllSucceeded(t) /\ LastLog(t) = <<"commit", FALSE>>) =>
            /\ eres[t] # OkResult
            /\ eres[t] = ErrResult(CtxCommit, NoIndex, "commit")
            /\ VisibleOf(t) = {}

\* C8 witness: a call with a non-empty batch, all of whose statements
\* succeeded, has returned after a failed commit.
C8_Witness ==
    \E t \in Tasks :
        /\ Done(t)
        /\ batchLen[t] >= 1
        /\ AllSucceeded(t)
        /\ LastLog(t) = <<"commit", FALSE>>

\* The calls that are between a successful acquisition and their return.
Borrowing == {t \in Tasks : epc[t] \in {"begin", "exec", "rollback"}}

\* C9: a call holds exactly one connection from the acquisition to its last
\* database action and none otherwise: the pool's count of borrowed
\* connections is the number of calls in between, a call that has returned
\* owns no transaction and has left nothing pending, and when no call is in
\* progress nothing is borrowed.
C9_ConnectionReturned ==
    /\ borrowed = Cardinality(Borrowing)
    /\ \A t \in Tasks :
        /\ holds[t] <=> epc[t] \in {"exec", "rollback"}
        /\ Done(t) => ~holds[t] /\ pending[t] = {}
        /\ ~holds[t] => pending[t] = {}
    /\ (\A t \in Tasks : epc[t] \in {"idle", "done"}) => borrowed = 0

\* C9 witness: every call has returned, among them one through a failed
\* rollback and one through a failed commit, and nothing is borrowed.
C9_Witness ==
    /\ \A t \in Tasks : Done(t)
    /\ \E t \in Tasks : Len(log[t]) >= 1 /\ LastLog(t) = <<"rollback", FALSE>>
    /\ \E t \in Tasks : Len(log[t]) >= 1 /\ LastLog(t) = <<"commit", FALSE>>
    /\ borrowed = 0

\* C10: the statements are executed in the submitted order, one per turn of
\* the loop and each at most once: the j-th execution of a call is that of
\* statement j-1, no more statements are executed than were submitted, and a
\* failed execution is the call's last one.
C10_InOrderNoRetry ==
    \A t \in Tasks :
        /\ Cardinality(Executions(t)) <= batchLen[t]
        /\ \A j \in Executions(t) :
            /\ log[t][j][2] = j - 2
            /\ ~log[t][j][3] => \A m \in Executions(t) : m <= j
        /\ epc[t] = "exec" => idx[t] = Cardinality(Executions(t))

\* C10 witness: a call executed statement 0 with success, then statement 1,
\* which failed, and went on to something else than a statement.
C10_Witness ==
    \E t \in Tasks :
        /\ Len(log[t]) >= 4
        /\ log[t][2] = <<"execute", 0, TRUE>>
        /\ log[t][3] = <<"execute", 1, FALSE>>
        /\ log[t][4][1] = "rollback"
\* The database action of a log entry, without its outcome.
ActionOf(e) == IF e[1] = "execute" THEN <<e[1], e[2]>> ELSE <<e[1]>>
IsPrefix(a, b) == Len(a) <= Len(b) /\ a = SubSeq(b, 1, Len(a))
\* The statement indices of task t's batch whose effects are visible.
VisibleIndices(t) == {e[2] : e \in VisibleOf(t)}
SingleCalls == {t \in Tasks : form[t] = "execute_query"}
OneElementBatchCalls == {t \in Tasks : form[t] = "execute_queries" /\ batchLen[t] = 1}

\* C11: execute_query(q) behaves as execute_queries on the one-element
\* sequence: it submits one statement, and against any call of the batch form
\* with one statement, after the same history of database actions and
\* outcomes it issues the same next action, it stops after a history exactly
\* when the other does, and having ended on the same history it returns the
\* same result (index 0 on a statement failure) with the same effects visible.
C11_SingleIsOneElementBatch ==
    \A t \in SingleCalls :
        /\ batchLen[t] = 1
        /\ \A u \in OneElementBatchCalls :
            /\ \A j \in 1..Len(log[t]) :
                (j <= Len(log[u]) /\ SubSeq(log[t], 1, j - 1) = SubSeq(log[u], 1, j - 1))
                    => ActionOf(log[t][j]) = ActionOf(log[u][j])
            /\ (Done(t) /\ log[t] # <<>> /\ IsPrefix(log[t], log[u])) => log[t] = log[u]
            /\ (Done(u) /\ log[u] # <<>> /\ IsPrefix(log[u], log[t])) => log[t] = log[u]
            /\ (Done(t) /\ Done(u) /\ log[t] = log[u] /\ log[t] # <<>>) =>
                   /\ eres[t] = eres[u]
                   /\ VisibleIndices(t) = VisibleIndices(u)
            /\ (Done(t) /\ Done(u) /\ log[t] = <<>> /\ log[u] = <<>>) =>
                   /\ eres[t][2] = CtxBegin
                   /\ eres[u][2] = CtxBegin

\* C11 witness: a call of each form has ended on the same history, the
\* statement failed and rolled back, and both returned the error with index 0.
C11_Witness ==
    \E t \in SingleCalls, u \in OneElementBatchCalls :
        /\ Done(t)
        /\ Done(u)
        /\ log[t] = <<(<<"begin">>), <<"execute", 0, FALSE>>, <<"rollback", TRUE>>>>
        /\ log[u] = log[t]
        /\ eres[t] = ErrResult(CtxExecute, 0, "execute")
\* ------------------------------------------------------ demo (SpecMain)
WorkerBorrowing == wpc \in {"fo_fetch", "fa_fetch"}
WorkerWaiting == wpc \in {"fo_acquire", "fa_acquire"}
PoolExhausted == borrowed >= poolMax

\* C12: the pool is bounded: the connections out, which are those of the
\* executor calls and of the read helper in progress, never exceed the
\* configured maximum; a caller that finds the maximum reached cannot take a
\* connection (it stays suspended) and can only end by the timeout; and a
\* call ended by the timeout returned an error without having opened a
\* transaction or executed a statement.
C12_BoundedPool ==
    /\ borrowed <= poolMax
    /\ borrowed = Cardinality(Borrowing) + (IF WorkerBorrowing THEN 1 ELSE 0)
    /\ \A t \in Tasks :
        /\ (epc[t] = "acquire" /\ PoolExhausted) =>
               /\ ~ENABLED AcquireConnection(t)
               /\ ENABLED AcquireTimeout(t)
        /\ (epc[t] = "acquire" /\ ~PoolExhausted) => ~ENABLED AcquireTimeout(t)
        /\ (Done(t) /\ eres[t][1] = "Err" /\ eres[t][4] = "acquire") =>
               /\ log[t] = <<>>
               /\ VisibleOf(t) = {}
               /\ eres[t] = ErrResult(CtxBegin, NoIndex, "acquire")
    /\ (WorkerWaiting /\ PoolExhausted) =>
           /\ ~ENABLED WorkerAcquire
           /\ ENABLED WorkerAcquireTimeout
    /\ wans = <<"timeout">> => wret[1] = "Err" /\ wret[3] = "acquire"

\* C12 witness: the pool's single connection is out to the read helper, one
\* executor call waits for it and the other has timed out.
C12_Witness ==
    /\ poolMax = 1
    /\ WorkerBorrowing
    /\ \E t \in Tasks : epc[t] = "acquire"
    /\ \E t \in Tasks : Done(t) /\ eres[t] = ErrResult(CtxBegin, NoIndex, "acquire")

Spawned == mainPc \in {"join", "exit"} /\ sret[MainCaller] # <<>> /\ sret[MainCaller][1][1] = "Ok"
DemoTasksDone == wpc = "done" /\ epc[BatchTask] = "done" /\ epc[UiTask] = "done"

\* C13: the demo spawns its three tasks, which run independently of each
\* other; main ends only when all three have finished; it returns Ok exactly
\* when the three of them returned Ok; and when some failed it returns the
\* error of the first failed one in the order in which it unwraps the
\* results (worker, batch, ui).
C13_DemoJoin ==
    /\ (mainPc = "join" /\ wpc = "idle") => ENABLED ResidentFeature
    /\ (mainPc = "join" /\ epc[BatchTask] = "idle") => ENABLED ScheduledBatchFeature
    /\ (mainPc = "join" /\ epc[UiTask] = "idle") => ENABLED ScreenFeature
    /\ mainPc # "exit" => mainRes = <<"none">>
    /\ (mainPc = "exit" /\ ~Spawned) => mainRes[1] = "Err" /\ mainRes[2] = "shared"
    /\ (mainPc = "exit" /\ Spawned) =>
        /\ DemoTasksDone
        /\ form[BatchTask] = "execute_queries" /\ batchLen[BatchTask] = BatchFeatureLen
        /\ form[UiTask] = "execute_query"
        /\ mainRes = OkResult <=>
               (wres = OkResult /\ eres[BatchTask] = OkResult /\ eres[UiTask] = OkResult)
        /\ wres[1] = "Err" => mainRes = <<"Err", "worker", wres>>
        /\ (wres[1] # "Err" /\ eres[BatchTask][1] = "Err") =>
               mainRes = <<"Err", "batch", eres[BatchTask]>>
        /\ (wres[1] # "Err" /\ eres[BatchTask][1] # "Err" /\ eres[UiTask][1] = "Err") =>
               mainRes = <<"Err", "ui", eres[UiTask]>>

\* C13 witness: the three tasks are in progress at the same time, each with
\* a connection of its own.
C13_Witness ==
    /\ mainPc = "join"
    /\ WorkerBorrowing
    /\ holds[BatchTask]
    /\ holds[UiTask]

\* C14: fetch_one returns Ok(None) when the query produced no row, the
\* decoded row when it produced one row that decodes, and an error only when
\* the execution failed (the query, or the acquisition of its connection) or
\* the row did not decode.
C14_FetchOne ==
    wpc = "fo_ret" =>
        /\ wans = <<"rows", <<>>>> => wret = <<"Ok", <<"None">>>>
        /\ (wans[1] = "rows" /\ Len(wans[2]) = 1 /\ wans[2][1][1] = "value") =>
               wret = <<"Ok", <<"Some", wans[2][1][2]>>>>
        /\ wret[1] = "Err" =>
               \/ wans[1] \in {"error", "timeout"}
               \/ wans[1] = "rows" /\ wans[2] # <<>> /\ wans[2][1][1] # "value"
        /\ wret[1] \in {"Ok", "Err"}

\* C14 witness: fetch_one has returned Ok(None) for a query without rows.
C14_Witness ==
    /\ wpc = "fo_ret"
    /\ wans = <<"rows", <<>>>>
    /\ wret = <<"Ok", <<"None">>>>
\* Positions in the log of the terminal actions (rollback, commit).
TerminalEntries(t) == {j \in 1..Len(log[t]) : log[t][j][1] \in {"rollback", "commit"}}

\* C16: a call follows Begin -> Executing(i) -> Committed | RolledBack and
\* its position is a function of what it has done: the log starts with the
\* begin; there is at most one terminal action, it is the last entry and the
\* call has ended with it; a call that began and has ended issued exactly
\* one; the terminal action is a rollback exactly when a statement failed
\* and a commit exactly when every statement succeeded.
C16_StateMachine ==
    \A t \in Tasks :
        /\ \A j \in 1..Len(log[t]) : (log[t][j][1] = "begin") <=> (j = 1)
        /\ Cardinality(TerminalEntries(t)) <= 1
        /\ \A j \in TerminalEntries(t) : j = Len(log[t]) /\ Done(t)
        /\ (Done(t) /\ log[t] # <<>>) => Cardinality(TerminalEntries(t)) = 1
        /\ IssuedRollback(t) => FailedExecutions(t) # {} /\ ~IssuedCommit(t)
        /\ IssuedCommit(t) => AllSucceeded(t) /\ ~IssuedRollback(t)
        /\ (Done(t) /\ FailedExecutions(t) # {}) => IssuedRollback(t)
        /\ (Done(t) /\ AllSucceeded(t)) => IssuedCommit(t)
        /\ epc[t] = "exec" <=>
               (log[t] # <<>> /\ TerminalEntries(t) = {} /\ FailedExecutions(t) = {})
        /\ epc[t] = "rollback" <=>
               (TerminalEntries(t) = {} /\ FailedExecutions(t) # {})

\* C16 witness: one call has ended Begin, Executing(0), Executing(1),
\* Committed and another Begin, Executing(0), Executing(1), RolledBack.
C16_Witness ==
    \E t \in Tasks, u \in Tasks :
        /\ Done(t)
        /\ Done(u)
        /\ log[t] = <<(<<"begin">>), <<"execute", 0, TRUE>>, <<"execute", 1, TRUE>>,
                      <<"commit", TRUE>>>>
        /\ log[u] = <<(<<"begin">>), <<"execute", 0, TRUE>>, <<"execute", 1, FALSE>>,
                      <<"rollback", TRUE>>>>

EmptyBatchCalls == {t \in Tasks : form[t] = "execute_queries" /\ batchLen[t] = 0}

\* C17: execute_queries on an empty sequence executes no statement, issues
\* no rollback and has no effect; it reaches the end of the (empty) loop only
\* holding a connection and an open transaction; it ends either by the
\* failure to open the transaction or by a commit, and returns Ok(()) exactly
\* when begin and commit succeeded.
C17_EmptyBatch ==
    \A t \in EmptyBatchCalls :
        /\ Executions(t) = {}
        /\ ~IssuedRollback(t)
        /\ VisibleOf(t) = {}
        /\ pending[t] = {}
        /\ epc[t] = "exec" =>
               /\ holds[t]
               /\ borrowed >= 1
               /\ log[t] = <<(<<"begin">>)>>
               /\ ENABLED Commit(t)
        /\ Done(t) =>
               \/ /\ log[t] = <<>>
                  /\ eres[t][1] = "Err"
                  /\ eres[t][2] = CtxBegin
               \/ /\ log[t] = <<(<<"begin">>), <<"commit", TRUE>>>>
                  /\ eres[t] = OkResult
               \/ /\ log[t] = <<(<<"begin">>), <<"commit", FALSE>>>>
                  /\ eres[t] = ErrResult(CtxCommit, NoIndex, "commit")

\* C17 witness: a call with an empty batch began, committed and returned Ok.
C17_Witness ==
    \E t \in EmptyBatchCalls :
        /\ Done(t)
        /\ log[t] = <<(<<"begin">>), <<"commit", TRUE>>>>
        /\ eres[t] = OkResult

\* The calls that ended because the unit of work could not be opened.
BeginFailed(t) == Done(t) /\ eres[t][1] = "Err" /\ eres[t][2] = CtxBegin

\* C18: when opening the unit of work fails (no connection within the
\* timeout, or BEGIN fails) the call returns that error at once: it has
\* issued no database action (no statement, no commit, no rollback), owns no
\* transaction, has no effect pending or visible, and keeps no connection:
\* the connections out are those of the calls still in progress. A call does
\* nothing on the database before the unit of work is open.
C18_BeginFailure ==
    /\ borrowed = Cardinality(Borrowing)
    /\ \A t \in Tasks :
        /\ BeginFailed(t) =>
               /\ log[t] = <<>>
               /\ idx[t] = 0
               /\ ~holds[t]
               /\ pending[t] = {}
               /\ VisibleOf(t) = {}
               /\ eres[t][3] = NoIndex
               /\ eres[t][4] \in {"acquire", "begin"}
        /\ (Done(t) /\ log[t] = <<>>) => BeginFailed(t)
        /\ epc[t] \in {"acquire", "begin"} => log[t] = <<>> /\ ~holds[t]

\* C18 witness: one call ended on a failed BEGIN and another on the
\* acquisition timeout, and no connection is out.
C18_Witness ==
    /\ \E t \in Tasks : BeginFailed(t) /\ eres[t][4] = "begin"
    /\ \E t \in Tasks : BeginFailed(t) /\ eres[t][4] = "acquire"
    /\ borrowed = 0
\* What a caller inside shared() does next: it is resumed by the semaphore,
\* or its attempt in the initializer ends.
SharedStep(c) == SemaphoreAcquire(c) \/ InitSucceeds(c) \/ InitFails(c)

\* ConnectionPool::shared() under the scheduling the runtime gives: an attempt
\* in the initializer ends (the connect is bounded by acquire_timeout), and a
\* caller whose semaphore.acquire() can resolve, and stays so, is resumed.
\* This asks less of the semaphore than the FIFO order tokio implements.
SpecSharedFair == SpecShared /\ \A c \in Callers : WF_vars(SharedStep(c))

\* C15: every call of ConnectionPool::shared() in progress eventually
\* returns, whatever happened to earlier attempts: a caller that is
\* suspended on the semaphore or runs the initializer is eventually back in
\* its own code with the result of the call.
C15_SharedReturns ==
    \A c \in Callers : (spc[c] # "idle") ~> (spc[c] = "idle" /\ sret[c] # <<>>)

\* C15 witness: an attempt has failed, another caller runs the initializer
\* now and a third is suspended behind it.
C15_Witness ==
    /\ FailedAttempts # {}
    /\ Initializing # {}
    /\ Suspended # {}
\* ------------------------------------- concurrent calls (SpecConcurrent)
\* A caller outside the demo calls the executor.
ExecutorCall(t) == mainPc = "off" /\ (ExecuteQueries(t) \/ ExecuteQuery(t))

\* main's own steps.
MainStep == MainShared \/ MainSharedFailed \/ MainSpawn \/ MainJoin

ConcurrentNext == (\E t \in Tasks : ExecutorCall(t)) \/ MainNext

\* A step of something already running: a call in progress, the worker, a
\* spawned task starting, or main.
Progress ==
    \/ \E t \in Tasks : ExecStep(t)
    \/ WorkerNext
    \/ ScheduledBatchFeature
    \/ ScreenFeature
    \/ MainStep

\* The executor used concurrently, by arbitrary callers on a pool already
\* made or by the demo's tasks. Of the runtime only this is assumed: while
\* something that is running can take a step, some such step is taken (an
\* acquisition ends with a connection or with the acquire_timeout error;
\* BEGIN, each statement, COMMIT and ROLLBACK end). No order among the tasks
\* is assumed, and nobody is obliged to call the executor.
SpecConcurrent ==
    /\ InitExec \/ InitMain
    /\ [][ConcurrentNext]_vars
    /\ WF_vars(Progress)

\* A call that holds a connection never waits for the pool: its next step
\* can be taken whatever the other calls do.
HolderNeverWaits == \A t \in Borrowing : ENABLED ExecStep(t)

\* Each call and each read in progress has one connection, not more.
OneConnectionEach ==
    borrowed = Cardinality(Borrowing) + (IF WorkerBorrowing THEN 1 ELSE 0)

\* A call that was made is in progress until it has ended, and stays ended.
CallProgresses ==
    \A t \in Tasks :
        /\ epc[t] # "idle" => epc'[t] # "idle"
        /\ epc[t] = "done" => epc'[t] = "done"

\* No call is in progress and main does not await its tasks.
AllEnded ==
    /\ \A t \in Tasks : epc[t] \in {"idle", "done"}
    /\ mainPc \in {"off", "exit"}
    /\ (mainPc = "exit" /\ Spawned) => DemoTasksDone

\* C19: concurrent calls do not deadlock on the pool. A call holds one
\* connection and never waits for the pool while it holds it; whatever the
\* number of calls and the pool's maximum (1 included), every call that was
\* made ends: from some point on no call is in progress, and a call made is
\* never un-made, so each one has ended. The demo's main, too, stops
\* awaiting: its three tasks have all finished, with a pool of size 1 as
\* with a larger one.
C19_NoPoolDeadlock ==
    /\ []HolderNeverWaits
    /\ []OneConnectionEach
    /\ [][CallProgresses]_vars
    /\ <>[]AllEnded

\* C19 witness: the pool has one connection, the worker's read has it, and
\* the batch and the ui task both wait for one.
C19_Witness ==
    /\ poolMax = 1
    /\ mainPc = "join"
    /\ WorkerBorrowing
    /\ epc[BatchTask] = "acquire"
    /\ epc[UiTask] = "acquire"

\* The demo's three tasks all finished on a pool of size 1 and main exited.
DemoFinishedOnPoolOfOne == poolMax = 1 /\ mainPc = "exit" /\ Spawned /\ DemoTasksDone
====
